---- MODULE Spec2Model ----
(* Seam carving (croppy, src/index.js): the carve loop started by every    *)
(* upload, the single carve step, the Dijkstra seam search and the seam    *)
(* removal.  Rows, columns and buffer offsets are 0-based as in the        *)
(* source; TLA+ sequences are 1-based, so a buffer offset k is element k+1.*)
EXTENDS Integers, Sequences, FiniteSets, TLC

VARIABLES search, rm, nUploads, pc, src, amount, ref, idx, heap, resultSrc, progress

vars == <<search, rm, nUploads, pc, src, amount, ref, idx, heap, resultSrc, progress>>

(* ---------------------------------------------------------------- bounds *)
MaxUploads == 2    \* upload events, hence carve loops in flight
CarveMaxW == 4     \* widest image given to one call of carve
CarveMaxH == 2     \* tallest image given to one call of carve
PFMaxW == 3        \* widest energy grid given to the seam search
PFMaxH == 3        \* tallest energy grid given to the seam search
RMMaxW == 4        \* widest image given to the seam removal alone
RMMaxH == 3        \* tallest image given to the seam removal alone

(* ------------------------------------------------------------- pathfind *)
Infinity == -1     \* the unreached sentinel of the distances array
Null == <<>>       \* the null back-pointer of the previous array

Rows(matrix) == Cardinality(DOMAIN matrix)
Cols(matrix) == Cardinality(DOMAIN matrix[0])

\* Math.floor(cols / 2)
StartCol(cols) == cols \div 2

\* newDistance < distances[newRow][newCol], with Infinity the sentinel
LessThan(newDistance, old) == old = Infinity \/ newDistance < old

\* the state of pathfind after its initialisation
PFInit(matrix) ==
  LET rows == Rows(matrix)
      cols == Cols(matrix)
      startCol == StartCol(cols)
  IN [matrix    |-> matrix,
      distances |-> [r \in 0..rows-1 |-> [c \in 0..cols-1 |->
                       IF r = 0 /\ c = startCol THEN matrix[0][startCol] ELSE Infinity]],
      visited   |-> [r \in 0..rows-1 |-> [c \in 0..cols-1 |-> FALSE]],
      previous  |-> [r \in 0..rows-1 |-> [c \in 0..cols-1 |-> Null]],
      queue     |-> << [row |-> 0, col |-> startCol, distance |-> matrix[0][startCol]] >>,
      status    |-> "running",
      path      |-> << >>]

\* one element placed into an already sorted queue, behind its equals
RECURSIVE InsertSorted(_, _)
InsertSorted(sorted, e) ==
  IF sorted = << >> THEN << e >>
  ELSE IF e.distance - Head(sorted).distance < 0 THEN << e >> \o sorted
  ELSE << Head(sorted) >> \o InsertSorted(Tail(sorted), e)

RECURSIVE SortFrom(_, _)
SortFrom(sorted, rest) ==
  IF rest = << >> THEN sorted
  ELSE SortFrom(InsertSorted(sorted, Head(rest)), Tail(rest))

SortQueueNone(queue) == queue

\* queue.sort((a, b) => a.distance - b.distance), a stable sort
SortQueue(queue) == SortFrom(<< >>, queue)

NeighbourOffsetsAll == << -1, 0, 1 >>

\* for (j = -1; j <= 1; j++) { if (j === 0) continue; ... }
NeighbourOffsets == << -1, 1 >>

\* the relaxation of the neighbours of the popped cell, in loop order
RECURSIVE Relax(_, _, _, _, _)
Relax(s, row, col, distance, k) ==
  IF k > Len(NeighbourOffsets) THEN s
  ELSE
    LET newRow == row + 1
        newCol == col + NeighbourOffsets[k]
    IN IF newRow < 0 \/ newRow >= Rows(s.matrix) \/ newCol < 0 \/ newCol >= Cols(s.matrix)
       THEN Relax(s, row, col, distance, k + 1)
       ELSE
         LET newDistance == distance + s.matrix[newRow][newCol]
         IN IF LessThan(newDistance, s.distances[newRow][newCol])
            THEN Relax([s EXCEPT !.distances[newRow][newCol] = newDistance,
                                 !.previous[newRow][newCol] = << row, col >>,
                                 !.queue = Append(s.queue,
                                    [row |-> newRow, col |-> newCol, distance |-> newDistance])],
                       row, col, distance, k + 1)
            ELSE Relax(s, row, col, distance, k + 1)

RECURSIVE TraceBackPush(_, _, _)
TraceBackPush(previous, path, current) ==
  IF current = Null THEN path
  ELSE TraceBackPush(previous, path \o << current >>, previous[current[1]][current[2]])

\* while (current) { path.unshift([current.row, current.col]); current = previous[...] }
RECURSIVE TraceBack(_, _, _)
TraceBack(previous, path, current) ==
  IF current = Null THEN path
  ELSE TraceBack(previous, << current >> \o path, previous[current[1]][current[2]])

\* one pass of the while loop of pathfind; with an empty queue the loop
\* is left and the function ends without a return value
PathfindIter(s) ==
  IF s.queue = << >> THEN [s EXCEPT !.status = "exhausted"]
  ELSE
    LET sorted == SortQueue(s.queue)
        row == Head(sorted).row
        col == Head(sorted).col
        distance == Head(sorted).distance
        rest == Tail(sorted)
    IN IF s.visited[row][col] THEN [s EXCEPT !.queue = rest]
       ELSE
         LET s1 == [s EXCEPT !.queue = rest, !.visited[row][col] = TRUE]
         IN IF row = Rows(s.matrix) - 1
            THEN [s1 EXCEPT !.status = "returned",
                            !.path = TraceBack(s.previous, << << row, col >> >>,
                                               s.previous[row][col])]
            ELSE Relax(s1, row, col, distance, 1)

RECURSIVE PathfindRun(_)
PathfindRun(s) == IF s.status = "running" THEN PathfindRun(PathfindIter(s)) ELSE s

\* pathfind(matrix): the search state when the function is left
pathfind(matrix) == PathfindRun(PFInit(matrix))

(* ------------------------------------------------------------ carveSeam *)
\* Array.prototype.splice(start, deleteCount) without inserted items
splice(data, start, deleteCount) ==
  LET len == Len(data)
      from == IF start < 0 THEN (IF len + start < 0 THEN 0 ELSE len + start)
              ELSE (IF start > len THEN len ELSE start)
      count == IF deleteCount < 0 THEN 0
               ELSE IF deleteCount > len - from THEN len - from ELSE deleteCount
  IN SubSeq(data, 1, from) \o SubSeq(data, from + count + 1, len)

RECURSIVE RemoveLoopAscending(_, _, _, _)
RemoveLoopAscending(newData, width, path, i) ==
  IF i < 0 THEN newData
  ELSE
    LET coords == path[Len(path) - i]
        offset == coords[1] * width * 4 + coords[2] * 4
    IN RemoveLoopAscending(splice(newData, offset, 4), width, path, i - 1)

\* for (i = path.length - 1; i >= 0; i--) newData.splice(offset, 4)
RECURSIVE RemoveLoop(_, _, _, _)
RemoveLoop(newData, width, path, i) ==
  IF i < 0 THEN newData
  ELSE
    LET coords == path[i + 1]
        vOffset == coords[1] * width * 4
        hOffset == coords[2] * 4
        offset == vOffset + hOffset
    IN RemoveLoop(splice(newData, offset, 4), width, path, i - 1)

removeSeamKeepWidth(image, path) ==
  [image EXCEPT !.data = RemoveLoop(image.data, image.width, path, Len(path) - 1)]

\* the second half of carveSeam: carve the path and apply the changes
removeSeam(image, path) ==
  [image EXCEPT !.data = RemoveLoop(image.data, image.width, path, Len(path) - 1),
                !.width = image.width - 1]

\* getEnergyMatrix, on the buffer image.sobelFilter().data
getEnergyMatrix(sobelData, width, height) ==
  [y \in 0..height-1 |-> [x \in 0..width-1 |->
     LET vOffset == y * width * 4
         hOffset == x * 4
         offset == vOffset + hOffset
     IN sobelData[offset + 1] + sobelData[offset + 2] + sobelData[offset + 3]]]

\* the first two lines of carveSeam: what pathfind gives on the energy map
\* of the filter's answer (status "exhausted" is the undefined result)
findSeam(sobelData, width, height) ==
  LET energyMap == getEnergyMatrix(sobelData, width, height)
      found == pathfind(energyMap)
  IN [status |-> found.status, path |-> found.path]

carveSeamEager(image, found) ==
  IF found.status # "returned"
  THEN [threw |-> TRUE, image |-> [image EXCEPT !.width = image.width - 1]]
  ELSE [threw |-> FALSE, image |-> removeSeam(image, found.path)]

\* carveSeam(image) from the result of pathfind on: the image object after
\* the call, and whether the call threw (path.length of an undefined path
\* is a TypeError)
carveSeam(image, found) ==
  IF found.status # "returned"
  THEN [threw |-> TRUE, image |-> image]
  ELSE [threw |-> FALSE, image |-> removeSeam(image, found.path)]

(* ---------------------------------------------------------------- inputs *)
\* a decoded file: every sample of the buffer is its own offset
SourceImage(w, h) ==
  [width |-> w, height |-> h, data |-> [k \in 1..(w * h * 4) |-> (k - 1) % 256]]

NoImage == [width |-> 0, height |-> 0, data |-> << >>]

\* the grey levels of the edge filter's answers; two levels let the
\* search find every seam the adjacency allows
SobelLevels == {0, 1}

\* the buffers the edge filter may answer for a w x h image: a grey
\* response per pixel, opaque alpha
SobelBuffers(w, h) ==
  { [k \in 1..(w * h * 4) |->
       LET off == k - 1
           y == off \div (w * 4)
           x == (off % (w * 4)) \div 4
       IN IF off % 4 = 3 THEN 255 ELSE f[y][x]] :
    f \in [0..h-1 -> [0..w-1 -> SobelLevels]] }

\* the energies of the grids given to the seam search
EnergyLevels == {0, 1}

Grids(maxW, maxH) ==
  UNION { [0..h-1 -> [0..w-1 -> EnergyLevels]] : w \in 1..maxW, h \in 1..maxH }

\* the seams with one coordinate per row, rows ascending
Seams(w, h) == { [r \in 1..h |-> << r - 1, f[r] >>] : f \in [1..h -> 0..w-1] }

\* the width and height of the files that are uploaded
UploadShapes == { << 1, 1 >>, << 1, 2 >>, << 2, 2 >>, << 3, 2 >> }

FileTypes == {"image/jpeg", "image/jpg", "image/png"}

\* the values of the amount field; amount/100 is exact in binary for each,
\* so i < width*(amount/100) is i*100 < width*amount
CarveAmounts == {0, 25, 50, 75, 100, 200}

\* the values of the amount field while several uploads are in flight
UploadAmounts == {0, 200}

Loops == 1..MaxUploads

\* the widths and heights an image can have when a carve step begins
StepShapes ==
  ((1..CarveMaxW) \X (1..CarveMaxH))
    \cup UNION { { << w, shape[2] >> : w \in 1..shape[1] } : shape \in UploadShapes }

\* for every such shape, the results of findSeam over all the answers the
\* edge filter may give for an image of that shape
SeamsFound ==
  [shape \in StepShapes |->
     { findSeam(sobelData, shape[1], shape[2]) : sobelData \in SobelBuffers(shape[1], shape[2]) }]

(* ----------------------------------------------------------------- carve *)
LoadShared(objects, source) ==
  IF objects = << >> THEN [heap |-> << source >>, ref |-> 1]
  ELSE [heap |-> objects, ref |-> 1]

\* IJS.Image.load(source): a new image object holding the decoded file
Load(objects, source) == [heap |-> Append(objects, source), ref |-> Len(objects) + 1]

\* result.toDataURL(): an encoded copy of the image as it is now
toDataURL(image) == << image.width, image.height, image.data >>

\* i < image.width*(amount/100)
LoopCond(i, image, amt) == i * 100 < image.width * amt

\* the loop test of carve and what follows it up to the next wait or the end
LoopHead(l, image, i) ==
  /\ resultSrc' = toDataURL(image)
  /\ IF LoopCond(i, image, amount[l])
     THEN /\ progress' = << (i + 1) * 100 * 100, image.width * amount[l] >>
          /\ pc' = [pc EXCEPT ![l] = "waiting"]
     ELSE /\ progress' = progress
          /\ pc' = [pc EXCEPT ![l] = "done"]

\* uploadImage(event)
uploadImage ==
  /\ nUploads < MaxUploads
  /\ nUploads' = nUploads + 1
  /\ \E type \in FileTypes, shape \in UploadShapes :
       IF type = "image/jpeg" \/ type = "image/jpg"
       THEN /\ pc' = [pc EXCEPT ![nUploads + 1] = "reading"]
            /\ src' = [src EXCEPT ![nUploads + 1] = SourceImage(shape[1], shape[2])]
       ELSE /\ pc' = [pc EXCEPT ![nUploads + 1] = "alerted"]
            /\ src' = src
  /\ UNCHANGED <<search, rm, amount, ref, idx, heap, resultSrc, progress>>

\* reader.onload: carve(reader.result, amount.value, "result") up to its
\* first await
onload(l) ==
  /\ pc[l] = "reading"
  /\ \E amt \in UploadAmounts : amount' = [amount EXCEPT ![l] = amt]
  /\ pc' = [pc EXCEPT ![l] = "loading"]
  /\ UNCHANGED <<search, rm, nUploads, src, ref, idx, heap, resultSrc, progress>>

\* carve resumed when the image is loaded, up to the first wait
carveLoaded(l) ==
  /\ pc[l] = "loading"
  /\ LET ld == Load(heap, src[l])
     IN /\ heap' = ld.heap
        /\ ref' = [ref EXCEPT ![l] = ld.ref]
        /\ idx' = [idx EXCEPT ![l] = 0]
        /\ LoopHead(l, ld.heap[ld.ref], 0)
  /\ UNCHANGED <<search, rm, nUploads, src, amount>>

\* carve resumed after the 10 ms wait: one carve step, i++, the loop test
carveStep(l) ==
  /\ pc[l] = "waiting"
  /\ LET image == heap[ref[l]]
     IN \E found \in SeamsFound[<< image.width, image.height >>] :
          LET r == carveSeam(image, found)
          IN /\ heap' = [heap EXCEPT ![ref[l]] = r.image]
             /\ IF r.threw
                THEN /\ pc' = [pc EXCEPT ![l] = "failed"]
                     /\ UNCHANGED <<idx, resultSrc, progress>>
                ELSE /\ idx' = [idx EXCEPT ![l] = idx[l] + 1]
                     /\ LoopHead(l, r.image, idx[l] + 1)
  /\ UNCHANGED <<search, rm, nUploads, src, amount, ref>>

NoSearch == [matrix |-> << >>, distances |-> << >>, visited |-> << >>,
             previous |-> << >>, queue |-> << >>, status |-> "none", path |-> << >>]

NoRemoval == [image |-> NoImage, path |-> << >>, old |-> NoImage, done |-> FALSE]

InitCarve ==
  /\ nUploads = 0
  /\ pc = [l \in Loops |-> "idle"]
  /\ src = [l \in Loops |-> NoImage]
  /\ amount = [l \in Loops |-> 0]
  /\ ref = [l \in Loops |-> 0]
  /\ idx = [l \in Loops |-> 0]
  /\ heap = << >>
  /\ resultSrc = << >>
  /\ progress = << >>

Init == search = NoSearch /\ rm = NoRemoval /\ InitCarve

Next ==
  \/ uploadImage
  \/ \E l \in Loops : onload(l)
  \/ \E l \in Loops : carveLoaded(l)
  \/ \E l \in Loops : carveStep(l)

Spec == Init /\ [][Next]_vars

(* ------------------------------------------------- one call of carve *)
InitOne ==
  /\ search = NoSearch
  /\ rm = NoRemoval
  /\ nUploads = MaxUploads
  /\ pc = [l \in Loops |-> IF l = 1 THEN "loading" ELSE "idle"]
  /\ \E w \in 1..CarveMaxW, h \in 1..CarveMaxH :
       src = [l \in Loops |-> IF l = 1 THEN SourceImage(w, h) ELSE NoImage]
  /\ \E amt \in CarveAmounts : amount = [l \in Loops |-> IF l = 1 THEN amt ELSE 0]
  /\ ref = [l \in Loops |-> 0]
  /\ idx = [l \in Loops |-> 0]
  /\ heap = << >>
  /\ resultSrc = << >>
  /\ progress = << >>

NextOne == carveLoaded(1) \/ carveStep(1)

SpecOne == InitOne /\ [][NextOne]_vars

(* -------------------------------------------- the seam search on its own *)
InitPF == search \in { PFInit(m) : m \in Grids(PFMaxW, PFMaxH) } /\ rm = NoRemoval /\ InitCarve

pathfindStep ==
  /\ search.status = "running"
  /\ search' = PathfindIter(search)
  /\ UNCHANGED <<rm, nUploads, pc, src, amount, ref, idx, heap, resultSrc, progress>>

NextPF == pathfindStep

SpecPF == InitPF /\ [][NextPF]_vars

(* ------------------------------------------- the seam removal on its own *)
InitRM ==
  /\ rm \in UNION { { [image |-> SourceImage(w, h), path |-> p,
                       old |-> SourceImage(w, h), done |-> FALSE] : p \in Seams(w, h) } :
                    w \in 1..RMMaxW, h \in 1..RMMaxH }
  /\ search = NoSearch
  /\ InitCarve

removeStep ==
  /\ ~rm.done
  /\ rm' = [rm EXCEPT !.image = removeSeam(rm.image, rm.path), !.done = TRUE]
  /\ UNCHANGED <<search, nUploads, pc, src, amount, ref, idx, heap, resultSrc, progress>>

NextRM == removeStep

SpecRM == InitRM /\ [][NextRM]_vars

(* ------------------------------------------------------------ properties *)
Abs(n) == IF n < 0 THEN -n ELSE n

Min2(a, b) == IF a < b THEN a ELSE b

WellSized(image) == Len(image.data) = image.width * image.height * 4

Held(l) == heap[ref[l]]

\* loop l takes a carve step that succeeds
StepSucceeds(l) == pc[l] = "waiting" /\ idx'[l] = idx[l] + 1

\* loop l takes a carve step that fails
StepFails(l) == pc[l] = "waiting" /\ pc'[l] = "failed"

\* C1: a successful carve step on a W x H image (W >= 2, H >= 1, buffer of
\* W*H*4 samples) leaves width W-1, height H and (W-1)*H*4 samples, and at
\* every wait of the carve loop the buffer length is width*height*4.
C1_DimensionInvariant ==
  /\ [](\A l \in Loops : pc[l] \in {"waiting", "done", "failed"} => WellSized(Held(l)))
  /\ [][\A l \in Loops :
          (/\ StepSucceeds(l)
           /\ Held(l).width >= 2 /\ Held(l).height >= 1 /\ WellSized(Held(l)))
          => /\ Held(l)'.width = Held(l).width - 1
             /\ Held(l)'.height = Held(l).height
             /\ Len(Held(l)'.data) = (Held(l).width - 1) * Held(l).height * 4]_vars

C1_Witness ==
  \E l \in Loops : /\ pc[l] = "done" /\ idx[l] = 2
                   /\ src[l].width = 4 /\ Held(l).width = 2 /\ Held(l).height = 2

\* the seams the adjacency allows: from row 0, column floor(W/2), every step
\* one row down and one column to the left or to the right, down to row H-1
AllowedSeams(matrix) ==
  LET rows == Rows(matrix)
      cols == Cols(matrix)
  IN { p \in { [r \in 1..rows |-> << r - 1, f[r] >>] : f \in [1..rows -> 0..cols-1] } :
         /\ p[1][2] = cols \div 2
         /\ \A r \in 1..rows-1 : Abs(p[r + 1][2] - p[r][2]) = 1 }

RECURSIVE SeamEnergy(_, _)
SeamEnergy(matrix, p) ==
  IF p = << >> THEN 0
  ELSE matrix[Head(p)[1]][Head(p)[2]] + SeamEnergy(matrix, Tail(p))

\* C2: the seam pathfind returns has the least total energy of all the
\* seams the adjacency allows, found by enumerating them.
C2_Minimality ==
  search.status = "returned" =>
    /\ search.path \in AllowedSeams(search.matrix)
    /\ \A p \in AllowedSeams(search.matrix) :
         SeamEnergy(search.matrix, search.path) <= SeamEnergy(search.matrix, p)

\* a 2-row grid whose cheaper seam goes to the right, found later
C2_Witness ==
  /\ search.status = "returned"
  /\ Rows(search.matrix) = 2 /\ Cols(search.matrix) = 3
  /\ search.matrix[1][2] < search.matrix[1][0]
  /\ search.path[2] = << 1, 2 >>

\* C3: a returned seam has H coordinates, the i-th in row i, every column
\* inside the grid, columns of consecutive rows at most 1 apart.
C3_PathValidity ==
  search.status = "returned" =>
    /\ Len(search.path) = Rows(search.matrix)
    /\ \A i \in 1..Len(search.path) :
         /\ search.path[i][1] = i - 1
         /\ search.path[i][2] \in 0..(Cols(search.matrix) - 1)
    /\ \A i \in 1..(Len(search.path) - 1) :
         Abs(search.path[i + 1][2] - search.path[i][2]) <= 1

C3_Witness ==
  /\ search.status = "returned"
  /\ Rows(search.matrix) = 3 /\ Cols(search.matrix) = 3
  /\ Len(search.path) = 3

RECURSIVE Ascending(_)
Ascending(S) ==
  IF S = {} THEN << >>
  ELSE LET m == CHOOSE x \in S : \A y \in S : x <= y
       IN << m >> \o Ascending(S \ {m})

\* the offsets of the buffer that are not in a pixel of the seam
KeptOffsets(image, path) ==
  { k \in 0..(Len(image.data) - 1) :
      \A i \in 1..Len(path) :
        << k \div (image.width * 4), (k % (image.width * 4)) \div 4 >> # path[i] }

ExpectedData(image, path) ==
  LET keep == Ascending(KeptOffsets(image, path))
  IN [i \in 1..Len(keep) |-> image.data[keep[i] + 1]]

\* C4: the removal deletes exactly the 4 samples of the seam pixel of each
\* row and keeps every other sample, in order.
C4_RemovalCorrect ==
  rm.done => /\ rm.image.data = ExpectedData(rm.old, rm.path)
             /\ rm.image.width = rm.old.width - 1
             /\ rm.image.height = rm.old.height

\* a removal where a higher row's seam pixel is to the right of the highest
\* column a front-to-back pass would still hit correctly
C4_Witness ==
  /\ rm.done
  /\ rm.old.height = 3 /\ rm.old.width = 3
  /\ rm.path = << << 0, 0 >>, << 1, 1 >>, << 2, 2 >> >>

\* C5 as claimed: the loop makes min(floor(W0*amount/100), W0-1) steps
C5_ExactCount ==
  \A l \in Loops :
    pc[l] = "done" =>
      LET n == Min2((src[l].width * amount[l]) \div 100, src[l].width - 1)
      IN idx[l] = n /\ Held(l).width = src[l].width - n

\* C6 as claimed: a step on an image of width <= 1 or height <= 1 fails,
\* and no image gets width 0
C6_DegenerateRejected ==
  /\ [](\A l \in Loops : ref[l] # 0 => Held(l).width >= 1)
  /\ [][\A l \in Loops :
          (pc[l] = "waiting" /\ (Held(l).width <= 1 \/ Held(l).height <= 1))
          => pc'[l] = "failed"]_vars

\* C7: a carve step that fails leaves the image's buffer and width as they
\* were.
C7_FailureLeavesImage ==
  [][\A l \in Loops : StepFails(l) => Held(l)' = Held(l)]_vars

C7_Witness ==
  \E l \in Loops : pc[l] = "failed" /\ idx[l] >= 1 /\ Held(l).width = 1

\* the samples of a source image are ascending, so an ascending buffer is
\* a selection of the loop's own source
FromOwnSource(l) ==
  LET data == Held(l).data
  IN /\ \A i \in 1..(Len(data) - 1) : data[i] < data[i + 1]
     /\ \A i \in 1..Len(data) : data[i] < Len(src[l].data)

\* C8: with several carve loops in flight, no image is held by two loops,
\* and every loop's image is its own source after its own idx steps.
C8_LoopsIsolated ==
  \A l \in Loops :
    ref[l] # 0 =>
      /\ \A m \in Loops \ {l} : ref[m] # ref[l]
      /\ Held(l).height = src[l].height
      /\ Held(l).width = src[l].width - idx[l]
      /\ WellSized(Held(l))
      /\ FromOwnSource(l)

\* two loops in flight, each between two of its own steps
C8_Witness ==
  \E l \in Loops, m \in Loops :
    /\ l # m
    /\ pc[l] = "waiting" /\ idx[l] = 1 /\ Held(l).width = 2
    /\ pc[m] = "waiting" /\ idx[m] = 1 /\ Held(m).width = 2

\* C9 as claimed: on every grid of H >= 1 rows and W >= 1 columns the
\* frontier never empties before a last-row cell is popped
C9_NeverExhausted == search.status # "exhausted"

\* C10: a returned seam starts at row 0, column floor(W/2), and the columns
\* of consecutive rows differ by exactly 1.
C10_DiagonalFromCentre ==
  search.status = "returned" =>
    /\ search.path[1] = << 0, Cols(search.matrix) \div 2 >>
    /\ \A i \in 1..(Len(search.path) - 1) :
         Abs(search.path[i + 1][2] - search.path[i][2]) = 1

\* the centre of the top row is the dearest cell of that row, and a
\* straight step down would be cheaper than both diagonal ones
C10_Witness ==
  /\ search.status = "returned"
  /\ Rows(search.matrix) = 2 /\ Cols(search.matrix) = 3
  /\ search.matrix[0] = [c \in 0..2 |-> IF c = 1 THEN 1 ELSE 0]
  /\ search.matrix[1] = [c \in 0..2 |-> IF c = 1 THEN 0 ELSE 1]

====
